---- MODULE Spec2Model ----
(***************************************************************************)
(* Model of Go.generic.config (package config1): loadEnvFile seeds the     *)
(* process environment from a .env file, parseConfig binds environment     *)
(* variables to the tagged fields of a struct, InitializeConfig runs one   *)
(* after the other.                                                        *)
(*                                                                         *)
(* A Go string is a sequence of one-character strings, so that trimming,   *)
(* prefix tests, splitting and the strconv conversions are computed on the *)
(* characters as the code computes them.                                   *)
(***************************************************************************)
EXTENDS Integers, Sequences, FiniteSets, TLC

VARIABLES
    env,        \* the process environment: a function from the set keys to their values
    env0,       \* the environment before the first call (history)
    env1,       \* the environment when the first loadEnvFile call returned (history)
    prevEnv,    \* the environment when the latest line was scanned (history)
    exists,     \* exists[p]: os.Open of p's file succeeds
    files,      \* files[p]: the lines of the file of call p, as the scanner yields them
    idx,        \* idx[p]: number of lines call p has scanned
    pc,         \* pc[p]: position of call p in loadEnvFile
    key,        \* key[p]: local variable key of call p
    value,      \* value[p]: local variable value of call p
    lerr,       \* lerr[p]: the error loadEnvFile call p returned
    again,      \* loadEnvFile was called a second time on the same file
    overlapped, \* a call took a step while the other call was in progress (history)
    clobbered,  \* the values a call had written that the other call then changed (history)
    writer,     \* writer[k]: the call that wrote key k last, for the keys the calls wrote
    shape,      \* what the destination T is: "struct" or "other"
    fields,     \* the struct's field descriptors, in declaration order
    cfg,        \* the destination's field values
    cfg0,       \* the destination's field values before parseConfig (history)
    fidx,       \* number of fields parseConfig has processed
    ppc,        \* position in parseConfig: "idle", "enter", "fields", "done"
    perr,       \* the error parseConfig returned
    ipc,        \* position in InitializeConfig: "none", "load", "parse", "done"
    ret         \* the error InitializeConfig returned

loadVars == <<env, env0, env1, prevEnv, exists, files, idx, pc, key, value, lerr,
              again, overlapped, clobbered, writer>>
parseVars == <<shape, fields, cfg, cfg0, fidx, ppc, perr>>
initVars == <<ipc, ret>>
vars == <<loadVars, parseVars, initVars>>

----------------------------------------------------------------------------
(* Bounds of the model *)

MaxLines == 3

MaxConcLines == 2

MaxFields == 3

Procs == {1, 2}

----------------------------------------------------------------------------
(* Strings *)

IsSpace(c) == c \in {" ", "\t", "\r"}

RECURSIVE TrimLeft(_)
TrimLeft(s) ==
    IF s # <<>> /\ IsSpace(Head(s)) THEN TrimLeft(Tail(s)) ELSE s

RECURSIVE TrimRight(_)
TrimRight(s) ==
    IF s # <<>> /\ IsSpace(s[Len(s)]) THEN TrimRight(SubSeq(s, 1, Len(s) - 1)) ELSE s

\* strings.TrimSpace
TrimSpace(s) == TrimRight(TrimLeft(s))

\* strings.HasPrefix
HasPrefix(s, p) == Len(s) >= Len(p) /\ SubSeq(s, 1, Len(p)) = p

\* strings.Index for a one-character separator: 0 when sep does not occur
Index(s, sep) ==
    IF \E i \in 1..Len(s) : s[i] = sep
    THEN CHOOSE i \in 1..Len(s) : s[i] = sep /\ \A j \in 1..(i - 1) : s[j] # sep
    ELSE 0

\* strings.SplitN(s, sep, 2): at most two parts, split at the first sep
SplitN2(s, sep) ==
    LET i == Index(s, sep)
    IN  IF i = 0 THEN <<s>> ELSE <<SubSeq(s, 1, i - 1), SubSeq(s, i + 1, Len(s))>>

----------------------------------------------------------------------------
(* The process environment *)

\* os.Getenv: the value, or "" when the key is not set
Getenv(e, k) == IF k \in DOMAIN e THEN e[k] ELSE <<>>

\* os.Setenv fails with EINVAL on an empty key, a key holding '=' or NUL, a value holding NUL
SetenvOK(k, v) ==
    /\ k # <<>>
    /\ \A i \in 1..Len(k) : k[i] \notin {"=", "NUL"}
    /\ \A i \in 1..Len(v) : v[i] # "NUL"

\* the environment after a successful os.Setenv(k, v)
Setenv(e, k, v) == [x \in DOMAIN e \cup {k} |-> IF x = k THEN v ELSE e[x]]

----------------------------------------------------------------------------
(* Errors *)

NoErr == [kind |-> "nil", subject |-> <<>>]

Err(kind, subject) == [kind |-> kind, subject |-> subject]

----------------------------------------------------------------------------
(* loadEnvFile *)

OnlyBlank(line) == line = <<>>

\* line == "" || strings.HasPrefix(line, "#")
IsBlankOrComment(line) == line = <<>> \/ HasPrefix(line, <<"#">>)

\* One scanned line, up to the assignment of key and value: skip is TRUE when
\* the loop continues without reaching them.
ParseLine(raw) ==
    LET line == TrimSpace(raw)
        parts == SplitN2(line, "=")
    IN  IF IsBlankOrComment(line) \/ Len(parts) # 2
        THEN [skip |-> TRUE, key |-> <<>>, value |-> <<>>]
        ELSE [skip |-> FALSE, key |-> TrimSpace(parts[1]), value |-> TrimSpace(parts[2])]

\* the test "os.Getenv(key) == """ that guards os.Setenv; v is the line's value
SwappedShouldSet(e, k, v) == Getenv(e, v) = <<>>

\* a loop that sets the variable on every line, so that the last line wins
AlwaysShouldSet(e, k, v) == TRUE

ShouldSet(e, k, v) == Getenv(e, k) = <<>>

\* One whole iteration of the scanner loop on environment e
LineStep(e, raw) ==
    LET l == ParseLine(raw)
    IN  IF l.skip \/ ~ShouldSet(e, l.key, l.value) THEN [env |-> e, err |-> NoErr]
        ELSE IF SetenvOK(l.key, l.value)
             THEN [env |-> Setenv(e, l.key, l.value), err |-> NoErr]
             ELSE [env |-> e, err |-> Err("failed to set env var", l.key)]

\* The scanner loop of loadEnvFile on an opened file f: the environment and the
\* error it returns
RECURSIVE RunFile(_, _)
RunFile(e, f) ==
    IF f = <<>> THEN [env |-> e, err |-> NoErr]
    ELSE LET r == LineStep(e, Head(f))
         IN  IF r.err # NoErr THEN r ELSE RunFile(r.env, Tail(f))

Other(p) == CHOOSE q \in Procs : q # p

InProgress(q) == pc[q] \notin {"open", "done"}

\* os.Open
Open(p) ==
    /\ pc[p] = "open"
    /\ IF exists[p]
       THEN /\ pc' = [pc EXCEPT ![p] = "scan"]
            /\ lerr' = lerr
       ELSE /\ pc' = [pc EXCEPT ![p] = "done"]
            /\ lerr' = [lerr EXCEPT ![p] = Err("open", <<>>)]
    /\ overlapped' = (overlapped \/ InProgress(Other(p)))
    /\ UNCHANGED <<parseVars, initVars, env, env0, env1, prevEnv, exists, files, idx, key, value, again,
                   clobbered, writer>>

\* scanner.Scan() yields a line: from the trim to the assignment of key and value
Scan(p) ==
    /\ pc[p] = "scan"
    /\ idx[p] < Len(files[p])
    /\ LET l == ParseLine(files[p][idx[p] + 1])
       IN  /\ idx' = [idx EXCEPT ![p] = @ + 1]
           /\ key' = [key EXCEPT ![p] = l.key]
           /\ value' = [value EXCEPT ![p] = l.value]
           /\ pc' = [pc EXCEPT ![p] = IF l.skip THEN "scan" ELSE "getenv"]
    /\ prevEnv' = env
    /\ overlapped' = (overlapped \/ InProgress(Other(p)))
    /\ UNCHANGED <<parseVars, initVars, env, env0, env1, exists, files, lerr, again, clobbered, writer>>

\* if os.Getenv(key) == ""
CheckUnset(p) ==
    /\ pc[p] = "getenv"
    /\ pc' = [pc EXCEPT ![p] = IF ShouldSet(env, key[p], value[p]) THEN "setenv" ELSE "scan"]
    /\ overlapped' = (overlapped \/ InProgress(Other(p)))
    /\ UNCHANGED <<parseVars, initVars, env, env0, env1, prevEnv, exists, files, idx, key, value, lerr, again,
                   clobbered, writer>>

\* os.Setenv(key, value), and the return on its error
Set(p) ==
    /\ pc[p] = "setenv"
    /\ IF SetenvOK(key[p], value[p])
       THEN /\ env' = Setenv(env, key[p], value[p])
            /\ pc' = [pc EXCEPT ![p] = "scan"]
            /\ lerr' = lerr
            /\ clobbered' = IF /\ key[p] \in DOMAIN writer
                               /\ writer[key[p]] # p
                               /\ env[key[p]] # value[p]
                            THEN clobbered \cup {env[key[p]]}
                            ELSE clobbered
            /\ writer' = [x \in DOMAIN writer \cup {key[p]} |->
                             IF x = key[p] THEN p ELSE writer[x]]
       ELSE /\ pc' = [pc EXCEPT ![p] = "done"]
            /\ lerr' = [lerr EXCEPT ![p] = Err("failed to set env var", key[p])]
            /\ UNCHANGED <<parseVars, initVars, env, clobbered, writer>>
    /\ overlapped' = (overlapped \/ InProgress(Other(p)))
    /\ UNCHANGED <<parseVars, initVars, env0, env1, prevEnv, exists, files, idx, key, value, again>>

\* scanner.Scan() is false at the end of the file: return scanner.Err(), nil
LoadReturn(p) ==
    /\ pc[p] = "scan"
    /\ idx[p] = Len(files[p])
    /\ pc' = [pc EXCEPT ![p] = "done"]
    /\ overlapped' = (overlapped \/ InProgress(Other(p)))
    /\ UNCHANGED <<parseVars, initVars, env, env0, env1, prevEnv, exists, files, idx, key, value, lerr, again,
                   clobbered, writer>>

\* scanner.Scan() is false on a read error: return scanner.Err(), not nil
ScanFail(p) ==
    /\ pc[p] = "scan"
    /\ pc' = [pc EXCEPT ![p] = "done"]
    /\ lerr' = [lerr EXCEPT ![p] = Err("read", <<>>)]
    /\ overlapped' = (overlapped \/ InProgress(Other(p)))
    /\ UNCHANGED <<parseVars, initVars, env, env0, env1, prevEnv, exists, files, idx, key, value, again,
                   clobbered, writer>>

\* The caller calls loadEnvFile a second time on the same file
LoadAgain ==
    /\ pc[1] = "done"
    /\ ~again
    /\ again' = TRUE
    /\ env1' = env
    /\ pc' = [pc EXCEPT ![1] = "open"]
    /\ idx' = [idx EXCEPT ![1] = 0]
    /\ key' = [key EXCEPT ![1] = <<>>]
    /\ value' = [value EXCEPT ![1] = <<>>]
    /\ lerr' = [lerr EXCEPT ![1] = NoErr]
    /\ UNCHANGED <<parseVars, initVars, env, env0, prevEnv, exists, files, overlapped, clobbered, writer>>

----------------------------------------------------------------------------
(* Inputs of the loader *)

\* An environment from a choice per key: <<>> leaves the key unset, <<v>> sets it to v
MkEnv(c) == [k \in {x \in DOMAIN c : c[x] # <<>>} |-> c[k][1]]

SeqsUpTo(S, n) == UNION {[1..m -> S] : m \in 0..n}

\* The lines a file is made of: blank, indented comment, no '=', padded
\* assignment, assignment, empty value, empty key, value holding '=', value
\* holding a NUL byte
LoadLines ==
    { <<" ">>,
      <<" ", "#", "K", "=", "a">>,
      <<"K">>,
      <<" ", "K", " ", "=", " ", "a", " ">>,
      <<"J", "=", "K">>,
      <<"K", "=">>,
      <<"=", "a">>,
      <<"K", "=", "a", "=", "b">>,
      <<"J", "=", "NUL">> }

LoadFiles == SeqsUpTo(LoadLines, MaxLines)

\* K is unset, set to "" or set to "x"; J is unset or set to "x"
LoadEnvs ==
    { MkEnv([k \in {<<"K">>, <<"J">>} |-> IF k = <<"K">> THEN ck ELSE cj]) :
        ck \in {<<>>, << <<>> >>, << <<"x">> >>}, cj \in {<<>>, << <<"x">> >>} }

\* parseConfig and InitializeConfig at rest
ParseIdle ==
    /\ shape = "struct"
    /\ fields = <<>>
    /\ cfg = <<>>
    /\ cfg0 = <<>>
    /\ fidx = 0
    /\ ppc = "idle"
    /\ perr = NoErr
    /\ ipc = "none"
    /\ ret = NoErr

\* One loadEnvFile call (call 1); call 2 is not made
InitLoad ==
    /\ env0 \in LoadEnvs
    /\ env = env0
    /\ env1 = env0
    /\ prevEnv = env0
    /\ \E ex \in BOOLEAN, f \in LoadFiles :
          /\ (~ex => f = <<>>)
          /\ exists = [p \in Procs |-> ex /\ p = 1]
          /\ files = [p \in Procs |-> IF p = 1 THEN f ELSE <<>>]
    /\ idx = [p \in Procs |-> 0]
    /\ pc = [p \in Procs |-> IF p = 1 THEN "open" ELSE "done"]
    /\ key = [p \in Procs |-> <<>>]
    /\ value = [p \in Procs |-> <<>>]
    /\ lerr = [p \in Procs |-> NoErr]
    /\ again = FALSE
    /\ overlapped = FALSE
    /\ clobbered = {}
    /\ writer = <<>>
    /\ ParseIdle

NextLoad ==
    \/ Open(1)
    \/ Scan(1)
    \/ CheckUnset(1)
    \/ Set(1)
    \/ LoadReturn(1)
    \/ LoadAgain

SpecLoad == InitLoad /\ [][NextLoad]_vars

----------------------------------------------------------------------------
(* Two loadEnvFile calls in one process, interleaved at os.Getenv and os.Setenv *)

\* lines that assign the key K: two values, and the empty value
ConcLines ==
    { <<"K", "=", "a">>,
      <<"K", "=", "b">>,
      <<"K", "=">> }

ConcFiles == SeqsUpTo(ConcLines, MaxConcLines)

\* K is unset or set to "x"
ConcEnvs == { MkEnv([k \in {<<"K">>} |-> ck]) : ck \in {<<>>, << <<"x">> >>} }

InitConc ==
    /\ env0 \in ConcEnvs
    /\ env = env0
    /\ env1 = env0
    /\ prevEnv = env0
    /\ exists = [p \in Procs |-> TRUE]
    /\ files \in [Procs -> ConcFiles]
    /\ idx = [p \in Procs |-> 0]
    /\ pc = [p \in Procs |-> "open"]
    /\ key = [p \in Procs |-> <<>>]
    /\ value = [p \in Procs |-> <<>>]
    /\ lerr = [p \in Procs |-> NoErr]
    /\ again = FALSE
    /\ overlapped = FALSE
    /\ clobbered = {}
    /\ writer = <<>>
    /\ ParseIdle

NextConc ==
    \E p \in Procs :
        \/ Open(p)
        \/ Scan(p)
        \/ CheckUnset(p)
        \/ Set(p)
        \/ LoadReturn(p)

SpecConc == InitConc /\ [][NextConc]_vars

----------------------------------------------------------------------------
(* strconv *)

Digits == <<"0", "1", "2", "3", "4", "5", "6", "7", "8", "9">>

IsDigit(c) == \E d \in 1..10 : Digits[d] = c

DigitVal(c) == (CHOOSE d \in 1..10 : Digits[d] = c) - 1

AllDigits(s) == \A i \in 1..Len(s) : IsDigit(s[i])

\* the number a string of decimal digits denotes
RECURSIVE DecVal(_)
DecVal(s) ==
    IF s = <<>> THEN 0 ELSE 10 * DecVal(SubSeq(s, 1, Len(s) - 1)) + DigitVal(s[Len(s)])

HasSign(s) == s # <<>> /\ s[1] \in {"+", "-"}

Unsigned(s) == IF HasSign(s) THEN Tail(s) ELSE s

Signed(s, n) == IF HasSign(s) /\ s[1] = "-" THEN 0 - n ELSE n

\* strconv.Atoi: an optional sign and one or more decimal digits. The inputs
\* are short, so the out-of-range error of a value beyond the int range does
\* not arise.
Atoi(s) ==
    IF Unsigned(s) # <<>> /\ AllDigits(Unsigned(s))
    THEN [ok |-> TRUE, val |-> Signed(s, DecVal(Unsigned(s)))]
    ELSE [ok |-> FALSE, val |-> 0]

\* the literals strconv.ParseBool accepts
TrueLiterals ==
    { <<"1">>, <<"t">>, <<"T">>, <<"T", "R", "U", "E">>, <<"t", "r", "u", "e">>,
      <<"T", "r", "u", "e">> }

FalseLiterals ==
    { <<"0">>, <<"f">>, <<"F">>, <<"F", "A", "L", "S", "E">>, <<"f", "a", "l", "s", "e">>,
      <<"F", "a", "l", "s", "e">> }

Lowers == <<"a", "e", "f", "l", "r", "s", "t", "u">>

Uppers == <<"A", "E", "F", "L", "R", "S", "T", "U">>

\* the lower-case form of a character, for the letters of "true" and "false"
ToLower(c) ==
    IF \E i \in 1..Len(Uppers) : Uppers[i] = c
    THEN Lowers[CHOOSE i \in 1..Len(Uppers) : Uppers[i] = c]
    ELSE c

LowerStr(s) == [i \in 1..Len(s) |-> ToLower(s[i])]

\* a ParseBool that folds case before matching
ParseBoolFoldCase(s) ==
    IF LowerStr(s) \in {<<"1">>, <<"t">>, <<"t", "r", "u", "e">>}
    THEN [ok |-> TRUE, val |-> TRUE]
    ELSE IF LowerStr(s) \in {<<"0">>, <<"f">>, <<"f", "a", "l", "s", "e">>}
         THEN [ok |-> TRUE, val |-> FALSE]
         ELSE [ok |-> FALSE, val |-> FALSE]

\* strconv.ParseBool
ParseBool(s) ==
    IF s \in TrueLiterals THEN [ok |-> TRUE, val |-> TRUE]
    ELSE IF s \in FalseLiterals THEN [ok |-> TRUE, val |-> FALSE]
    ELSE [ok |-> FALSE, val |-> FALSE]

\* a decimal fraction num / 10^scale without trailing zeros in the fraction
RECURSIVE Fraction(_, _)
Fraction(num, scale) ==
    IF scale > 0 /\ num % 10 = 0 THEN Fraction(num \div 10, scale - 1)
    ELSE [num |-> num, scale |-> scale]

\* strconv.ParseFloat(s, 64) on decimal literals: an optional sign, digits,
\* an optional '.' and digits, one digit at least. The exponent, hexadecimal,
\* infinity and NaN spellings it also accepts are not among the inputs.
ParseFloat(s) ==
    LET u == Unsigned(s)
        dot == Index(u, ".")
        ip == IF dot = 0 THEN u ELSE SubSeq(u, 1, dot - 1)
        fp == IF dot = 0 THEN <<>> ELSE SubSeq(u, dot + 1, Len(u))
    IN  IF AllDigits(ip) /\ AllDigits(fp) /\ Len(ip) + Len(fp) >= 1
        THEN [ok |-> TRUE, val |-> Fraction(Signed(s, DecVal(ip \o fp)), Len(fp))]
        ELSE [ok |-> FALSE, val |-> Fraction(0, 0)]

----------------------------------------------------------------------------
(* parseConfig *)

\* the cases of the switch on fieldVal.Kind() that convert
SupportedKinds == {"string", "int", "int64", "bool", "float64"}

\* a switch whose default case returns no error
ConvertNoDefault(f, v) ==
    CASE f.kind = "string" -> [val |-> v, err |-> NoErr]
      [] f.kind \in {"int", "int64"} ->
            IF Atoi(v).ok THEN [val |-> Atoi(v).val, err |-> NoErr]
            ELSE [val |-> 0, err |-> Err("invalid integer value", f.key)]
      [] f.kind = "bool" ->
            IF ParseBool(v).ok THEN [val |-> ParseBool(v).val, err |-> NoErr]
            ELSE [val |-> FALSE, err |-> Err("invalid boolean value", f.key)]
      [] f.kind = "float64" ->
            IF ParseFloat(v).ok THEN [val |-> ParseFloat(v).val, err |-> NoErr]
            ELSE [val |-> Fraction(0, 0), err |-> Err("invalid float value", f.key)]
      [] OTHER -> [val |-> 0, err |-> NoErr]

\* The switch on fieldVal.Kind() for field f and the non-empty value v:
\* the value to store, or the error returned
Convert(f, v) ==
    CASE f.kind = "string" -> [val |-> v, err |-> NoErr]
      [] f.kind \in {"int", "int64"} ->
            IF Atoi(v).ok THEN [val |-> Atoi(v).val, err |-> NoErr]
            ELSE [val |-> 0, err |-> Err("invalid integer value", f.key)]
      [] f.kind = "bool" ->
            IF ParseBool(v).ok THEN [val |-> ParseBool(v).val, err |-> NoErr]
            ELSE [val |-> FALSE, err |-> Err("invalid boolean value", f.key)]
      [] f.kind = "float64" ->
            IF ParseFloat(v).ok THEN [val |-> ParseFloat(v).val, err |-> NoErr]
            ELSE [val |-> Fraction(0, 0), err |-> Err("invalid float value", f.key)]
      [] OTHER -> [val |-> 0, err |-> Err("unsupported field type", f.name)]

\* a loop body that reaches the switch without the test of envVal
FieldStepNoEmptyCheck(e, f, old) ==
    IF ~f.tagged THEN [val |-> old, err |-> NoErr]
    ELSE IF ~f.exported THEN [val |-> old, err |-> Err("cannot set field", f.name)]
    ELSE LET c == Convert(f, Getenv(e, f.key))
         IN  [val |-> IF c.err = NoErr THEN c.val ELSE old, err |-> c.err]

\* One iteration of the loop over the fields: the field's value after it (old
\* when the field is not set) and the error returned, NoErr when the loop goes on
FieldStep(e, f, old) ==
    IF ~f.tagged THEN [val |-> old, err |-> NoErr]
    ELSE IF Getenv(e, f.key) = <<>> THEN [val |-> old, err |-> NoErr]
    ELSE IF ~f.exported THEN [val |-> old, err |-> Err("cannot set field", f.name)]
    ELSE LET c == Convert(f, Getenv(e, f.key))
         IN  [val |-> IF c.err = NoErr THEN c.val ELSE old, err |-> c.err]

\* a loop that goes on to the next field after an error
AbortNever(err) == FALSE

\* the loop returns as soon as an iteration yields an error
Abort(err) == err # NoErr

\* parseConfig on a struct, from field i on: the field values and the error it returns
RECURSIVE ParseFrom(_, _, _, _)
ParseFrom(e, fs, c, i) ==
    IF i > Len(fs) THEN [cfg |-> c, err |-> NoErr]
    ELSE LET o == FieldStep(e, fs[i], c[i])
             c2 == [c EXCEPT ![i] = o.val]
         IN  IF Abort(o.err) THEN [cfg |-> c2, err |-> o.err]
             ELSE ParseFrom(e, fs, c2, i + 1)

\* the test that config points to a struct
ParseEnter ==
    /\ ppc = "enter"
    /\ IF shape = "struct"
       THEN /\ ppc' = "fields"
            /\ perr' = perr
       ELSE /\ ppc' = "done"
            /\ perr' = Err("config must be a pointer to a struct", <<>>)
    /\ UNCHANGED <<loadVars, initVars, shape, fields, cfg, cfg0, fidx>>

\* one iteration of the loop over the fields
ParseField ==
    /\ ppc = "fields"
    /\ fidx < Len(fields)
    /\ LET o == FieldStep(env, fields[fidx + 1], cfg[fidx + 1])
       IN  /\ cfg' = [cfg EXCEPT ![fidx + 1] = o.val]
           /\ fidx' = fidx + 1
           /\ perr' = IF Abort(o.err) THEN o.err ELSE perr
           /\ ppc' = IF Abort(o.err) THEN "done" ELSE "fields"
    /\ UNCHANGED <<loadVars, initVars, shape, fields, cfg0>>

\* the loop is over: return nil
ParseReturn ==
    /\ ppc = "fields"
    /\ fidx = Len(fields)
    /\ ppc' = "done"
    /\ UNCHANGED <<loadVars, initVars, shape, fields, cfg, cfg0, fidx, perr>>

----------------------------------------------------------------------------
(* Inputs of parseConfig *)

KeyNames == <<"A", "B", "C", "D", "E", "G">>

\* the env tag of the field at position i, and its Go name
FieldKey(i) == <<KeyNames[i]>>

FieldName(i) == <<"F", KeyNames[i]>>

Shape(kind, tagged, exported) == [kind |-> kind, tagged |-> tagged, exported |-> exported]

\* A field and what the environment holds for its key (<<>>: unset, <<v>>: set to v)
Case(sh, val) == [shape |-> sh, val |-> val]

Tagged(kind) == Shape(kind, TRUE, TRUE)

FieldCases ==
    { Case(Tagged("string"), << <<"a", "b", "c">> >>),
      Case(Tagged("string"), <<>>),
      Case(Tagged("string"), << <<"1", ".", "5">> >>),
      Case(Tagged("int"), << <<"1">> >>),
      Case(Tagged("int64"), << <<"1">> >>),
      Case(Tagged("int"), << <<"-", "7">> >>),
      Case(Tagged("int"), << <<"a", "b", "c">> >>),
      Case(Tagged("int"), << <<"1", ".", "5">> >>),
      Case(Tagged("int"), << <<>> >>),
      Case(Tagged("bool"), << <<"1">> >>),
      Case(Tagged("bool"), << <<"a", "b", "c">> >>),
      Case(Tagged("bool"), << <<>> >>),
      Case(Tagged("float64"), << <<"1", ".", "5">> >>),
      Case(Tagged("float64"), << <<"1">> >>),
      Case(Tagged("float64"), << <<"a", "b", "c">> >>),
      Case(Tagged("uint"), << <<"1">> >>),
      Case(Tagged("uint"), <<>>),
      Case(Shape("int", FALSE, TRUE), << <<"1">> >>),
      Case(Shape("string", TRUE, FALSE), << <<"a", "b", "c">> >>),
      Case(Shape("string", TRUE, FALSE), <<>>) }

\* the zero value of a kind, and a value that is not the zero value
ZeroOf(kind) ==
    CASE kind = "string" -> <<>>
      [] kind = "bool" -> FALSE
      [] kind = "float64" -> Fraction(0, 0)
      [] OTHER -> 0

PriorOf(kind) ==
    CASE kind = "string" -> <<"p">>
      [] kind = "bool" -> TRUE
      [] kind = "float64" -> Fraction(25, 1)
      [] OTHER -> 99

MkField(i, sh) ==
    [name |-> FieldName(i), key |-> FieldKey(i), kind |-> sh.kind,
     tagged |-> sh.tagged, exported |-> sh.exported]

\* the struct, the environment and the destination's values for a sequence of cases
CaseFields(cs) == [i \in 1..Len(cs) |-> MkField(i, cs[i].shape)]

CaseEnv(cs) ==
    [k \in {FieldKey(i) : i \in {j \in 1..Len(cs) : cs[j].val # <<>>}} |->
        cs[CHOOSE i \in 1..Len(cs) : FieldKey(i) = k].val[1]]

CaseCfg(cs, nonzero) ==
    [i \in 1..Len(cs) |-> IF nonzero THEN PriorOf(cs[i].shape.kind) ELSE ZeroOf(cs[i].shape.kind)]

\* no loadEnvFile call is made
LoadIdle ==
    /\ env = env0
    /\ env1 = env0
    /\ prevEnv = env0
    /\ exists = [p \in Procs |-> FALSE]
    /\ files = [p \in Procs |-> <<>>]
    /\ idx = [p \in Procs |-> 0]
    /\ pc = [p \in Procs |-> "done"]
    /\ key = [p \in Procs |-> <<>>]
    /\ value = [p \in Procs |-> <<>>]
    /\ lerr = [p \in Procs |-> NoErr]
    /\ again = FALSE
    /\ overlapped = FALSE
    /\ clobbered = {}
    /\ writer = <<>>

\* parseConfig is called on a struct of up to MaxFields fields whose values are
\* all zero or all non-zero, or on a destination that is no struct
InitParse ==
    /\ \E cs \in SeqsUpTo(FieldCases, MaxFields), nonzero \in BOOLEAN, sh \in {"struct", "other"} :
          /\ (sh = "other" \/ cs = <<>>) => ~nonzero
          /\ sh = "other" => cs = <<>>
          /\ shape = sh
          /\ fields = CaseFields(cs)
          /\ env0 = CaseEnv(cs)
          /\ cfg0 = CaseCfg(cs, nonzero)
    /\ cfg = cfg0
    /\ fidx = 0
    /\ ppc = "enter"
    /\ perr = NoErr
    /\ ipc = "none"
    /\ ret = NoErr
    /\ LoadIdle

NextParse ==
    \/ ParseEnter
    \/ ParseField
    \/ ParseReturn

SpecParse == InitParse /\ [][NextParse]_vars

----------------------------------------------------------------------------
(* parseConfig on one bool field, for the boolean conversion *)

ToUpper(c) ==
    IF \E i \in 1..Len(Lowers) : Lowers[i] = c
    THEN Uppers[CHOOSE i \in 1..Len(Lowers) : Lowers[i] = c]
    ELSE c

\* every spelling of the word w in upper and lower case letters
CaseMixes(w) ==
    { [i \in 1..Len(w) |-> IF i \in S THEN ToUpper(w[i]) ELSE w[i]] : S \in SUBSET (1..Len(w)) }

AnyCaseTrue == CaseMixes(<<"t", "r", "u", "e">>) \cup CaseMixes(<<"t">>) \cup {<<"1">>}

AnyCaseFalse == CaseMixes(<<"f", "a", "l", "s", "e">>) \cup CaseMixes(<<"f">>) \cup {<<"0">>}

\* what the environment holds for the bool field's key
BoolInputs ==
    {<<>>}
    \cup { <<v>> : v \in AnyCaseTrue \cup AnyCaseFalse }
    \cup { << <<>> >>, << <<"2">> >>, << <<"1", "0">> >>, << <<"t", "r">> >>,
           << <<"y", "e", "s">> >>, << <<"a", "b", "c">> >>, << <<"1", " ">> >> }

InitBool ==
    /\ \E val \in BoolInputs, prior \in BOOLEAN :
          /\ fields = CaseFields(<<Case(Tagged("bool"), val)>>)
          /\ env0 = CaseEnv(<<Case(Tagged("bool"), val)>>)
          /\ cfg0 = <<prior>>
    /\ shape = "struct"
    /\ cfg = cfg0
    /\ fidx = 0
    /\ ppc = "enter"
    /\ perr = NoErr
    /\ ipc = "none"
    /\ ret = NoErr
    /\ LoadIdle

SpecBool == InitBool /\ [][NextParse]_vars

----------------------------------------------------------------------------
(* InitializeConfig *)

\* a caller that returns the error of loadEnvFile instead of going on
AfterLoadFatal(err) == IF err = NoErr THEN "parse" ELSE "done"

\* what InitializeConfig does with the error of loadEnvFile: it prints it and
\* calls parseConfig in either case
AfterLoad(err) == "parse"

InitAfterLoad ==
    /\ ipc = "load"
    /\ pc[1] = "done"
    /\ ipc' = AfterLoad(lerr[1])
    /\ IF AfterLoad(lerr[1]) = "parse"
       THEN /\ ppc' = "enter"
            /\ ret' = ret
       ELSE /\ ppc' = ppc
            /\ ret' = lerr[1]
    /\ UNCHANGED <<loadVars, shape, fields, cfg, cfg0, fidx, perr>>

\* return parseConfig(config)
InitReturn ==
    /\ ipc = "parse"
    /\ ppc = "done"
    /\ ipc' = "done"
    /\ ret' = perr
    /\ UNCHANGED <<loadVars, parseVars>>

\* The struct Config: MongoDBHost, MongoDBPort, MongoDBUser, MongoDBPassword and
\* DebugMode, with the env tags MONGO_HOST, MONGO_PORT, MONGO_USER,
\* MONGO_PASSWORD and DEBUG_MODE written H, P, U, W and D
Config ==
    << [name |-> <<"F", "H">>, key |-> <<"H">>, kind |-> "string", tagged |-> TRUE, exported |-> TRUE],
       [name |-> <<"F", "P">>, key |-> <<"P">>, kind |-> "int", tagged |-> TRUE, exported |-> TRUE],
       [name |-> <<"F", "U">>, key |-> <<"U">>, kind |-> "string", tagged |-> TRUE, exported |-> TRUE],
       [name |-> <<"F", "W">>, key |-> <<"W">>, kind |-> "string", tagged |-> TRUE, exported |-> TRUE],
       [name |-> <<"F", "D">>, key |-> <<"D">>, kind |-> "bool", tagged |-> TRUE, exported |-> TRUE] >>

\* cfg := &config.Config{}
ZeroConfig == [i \in 1..Len(Config) |-> ZeroOf(Config[i].kind)]

\* the lines of the .env file: a port, a port that is no number, a debug
\* flag, a line without key, a comment
InitLines ==
    { <<"P", "=", "2", "7", "0", "1", "7">>,
      <<"P", "=", "a", "b", "c">>,
      <<"D", "=", "t", "r", "u", "e">>,
      <<"=", "a">>,
      <<"#", "c">> }

InitFiles == SeqsUpTo(InitLines, MaxLines)

\* MONGO_PORT is unset or "7", DEBUG_MODE is unset or "false"
InitEnvs ==
    { MkEnv([k \in {<<"P">>, <<"D">>} |-> IF k = <<"P">> THEN cp ELSE cd]) :
        cp \in {<<>>, << <<"7">> >>}, cd \in {<<>>, << <<"f", "a", "l", "s", "e">> >>} }

InitInit ==
    /\ env0 \in InitEnvs
    /\ env = env0
    /\ env1 = env0
    /\ prevEnv = env0
    /\ \E ex \in BOOLEAN, f \in InitFiles :
          /\ (~ex => f = <<>>)
          /\ exists = [p \in Procs |-> ex /\ p = 1]
          /\ files = [p \in Procs |-> IF p = 1 THEN f ELSE <<>>]
    /\ idx = [p \in Procs |-> 0]
    /\ pc = [p \in Procs |-> IF p = 1 THEN "open" ELSE "done"]
    /\ key = [p \in Procs |-> <<>>]
    /\ value = [p \in Procs |-> <<>>]
    /\ lerr = [p \in Procs |-> NoErr]
    /\ again = FALSE
    /\ overlapped = FALSE
    /\ clobbered = {}
    /\ writer = <<>>
    /\ shape = "struct"
    /\ fields = Config
    /\ cfg0 = ZeroConfig
    /\ cfg = cfg0
    /\ fidx = 0
    /\ ppc = "idle"
    /\ perr = NoErr
    /\ ipc = "load"
    /\ ret = NoErr

NextInit ==
    \/ Open(1)
    \/ Scan(1)
    \/ CheckUnset(1)
    \/ Set(1)
    \/ LoadReturn(1)
    \/ ScanFail(1)
    \/ InitAfterLoad
    \/ ParseEnter
    \/ ParseField
    \/ ParseReturn
    \/ InitReturn

SpecInit == InitInit /\ [][NextInit]_vars

----------------------------------------------------------------------------
(* Claims about loadEnvFile, checked under SpecLoad *)

\* C1: every key that is set before the call has the same value after it,
\* whatever the file holds.
C1_Precedence ==
    \A k \in DOMAIN env0 : k \in DOMAIN env /\ env[k] = env0[k]

\* the environment the current call started from
StartEnv == IF again THEN env1 ELSE env0

\* C6: when the second loadEnvFile call on the same file has returned, the
\* environment is the one the first call left.
C6_Idempotent ==
    (again /\ pc[1] = "done") => env = env1

\* a second call has returned on a file of two lines or more that changed the environment
C6_Witness ==
    /\ again
    /\ pc[1] = "done"
    /\ Len(files[1]) >= 2
    /\ env1 # env0
    /\ env = env1

\* a line that is blank, a comment, or without '='
MalformedLine(raw) ==
    LET t == TrimSpace(raw)
    IN  t = <<>> \/ t[1] = "#" \/ \A i \in 1..Len(raw) : raw[i] # "="

WellFormedOnly(f) == SelectSeq(f, LAMBDA raw : ~MalformedLine(raw))

EmptyKeyLine(raw) ==
    LET t == TrimSpace(raw)
        i == Index(t, "=")
    IN  /\ t # <<>>
        /\ t[1] # "#"
        /\ i # 0
        /\ TrimSpace(SubSeq(t, 1, i - 1)) = <<>>

\* C10: once a line with '=' and an empty key has been handled, no variable
\* was set for it, no error is returned for it and the loop goes on to the
\* lines after it.
C10_EmptyKeySkipped ==
    (idx[1] >= 1 /\ EmptyKeyLine(files[1][idx[1]]) /\ pc[1] \in {"scan", "done"}) =>
        /\ env = prevEnv
        /\ lerr[1] = NoErr
        /\ (pc[1] = "done" => idx[1] = Len(files[1]))

\* the trimmed values of the well-formed lines of f that assign key k, in file order
ValuesFor(f, k) ==
    LET own == SelectSeq(f, LAMBDA raw : ~ParseLine(raw).skip /\ ParseLine(raw).key = k)
    IN  [i \in 1..Len(own) |-> ParseLine(own[i]).value]

\* the first non-empty value of a sequence of values that has one
FirstNonEmpty(vs) == vs[CHOOSE i \in 1..Len(vs) : vs[i] # <<>> /\ \A j \in 1..(i - 1) : vs[j] = <<>>]

HasNonEmpty(vs) == \E i \in 1..Len(vs) : vs[i] # <<>>

\* the keys the well-formed lines of f assign
KeysOf(f) == { ParseLine(f[i]).key : i \in {j \in 1..Len(f) : ~ParseLine(f[j]).skip} }

\* the value of k that the claim predicts from the lines f
FirstWins(f, k) ==
    HasNonEmpty(ValuesFor(f, k)) => Getenv(env, k) = FirstNonEmpty(ValuesFor(f, k))

\* C11 as stated: when the call has returned, every key that was unset before
\* it and that several well-formed lines of the file assign has the value of
\* the first of those lines whose trimmed value is not empty.
C11_FirstNonEmptyWins ==
    (pc[1] = "done" /\ exists[1]) =>
        \A k \in KeysOf(files[1]) \ DOMAIN StartEnv :
            Len(ValuesFor(files[1], k)) > 1 => FirstWins(files[1], k)

\* the lines the call has handled: the lines scanned, without the line on
\* which os.Setenv failed
Handled ==
    SubSeq(files[1], 1, IF lerr[1] = NoErr THEN idx[1] ELSE idx[1] - 1)

\* C11 as amended: between two lines and when the call has returned, every key
\* that was unset before the call has the value of the first handled line for
\* it whose trimmed value is not empty, whatever the later lines for it hold;
\* when all the handled lines for it have an empty value, it is set to "".
C11_FirstHandledNonEmptyWins ==
    (pc[1] \in {"scan", "done"} /\ exists[1]) =>
        \A k \in KeysOf(Handled) \ DOMAIN StartEnv :
            /\ FirstWins(Handled, k)
            /\ ~HasNonEmpty(ValuesFor(Handled, k)) => (k \in DOMAIN env /\ env[k] = <<>>)

\* K was unset; the file assigns it "", then "a=b", then "a"; the call has
\* returned nil and K is "a=b"
C11_Witness ==
    /\ pc[1] = "done"
    /\ ~again
    /\ lerr[1] = NoErr
    /\ <<"K">> \notin DOMAIN env0
    /\ ValuesFor(files[1], <<"K">>) = << <<>>, <<"a", "=", "b">>, <<"a">> >>
    /\ env[<<"K">>] = <<"a", "=", "b">>

----------------------------------------------------------------------------
(* Claims about concurrent loadEnvFile calls, checked under SpecConc *)

\* C9: two concurrent calls can both read the key as unset and both write it,
\* so that one overwrites what the other wrote (C9_RaceOverwrite is that
\* state); when the calls are serialized, no value written by the first call
\* is changed by the second.
C9_SerializedKeepsFirst ==
    ~overlapped => clobbered = {}

\* K was unset, the calls overlapped, both have returned, and one changed the
\* non-empty value the other had written for K
C9_RaceOverwrite ==
    /\ <<"K">> \notin DOMAIN env0
    /\ files[1] = << <<"K", "=", "a">> >>
    /\ files[2] = << <<"K", "=", "b">> >>
    /\ pc = [p \in Procs |-> "done"]
    /\ overlapped
    /\ clobbered # {}
    /\ <<>> \notin clobbered

\* Serialized calls change no non-empty value that the other call wrote
C9_SerializedKeepsNonEmpty ==
    ~overlapped => clobbered \subseteq {<<>>}

----------------------------------------------------------------------------
(* Claims about parseConfig, checked under SpecParse *)

\* the value visible for the key of field i
Visible(i) == Getenv(env, fields[i].key)

\* v is validly formatted for a supported kind, and the value it converts to
ValidFor(kind, v) ==
    CASE kind = "string" -> TRUE
      [] kind \in {"int", "int64"} -> Atoi(v).ok
      [] kind = "bool" -> ParseBool(v).ok
      [] kind = "float64" -> ParseFloat(v).ok

ValueOf(kind, v) ==
    CASE kind = "string" -> v
      [] kind \in {"int", "int64"} -> Atoi(v).val
      [] kind = "bool" -> ParseBool(v).val
      [] kind = "float64" -> ParseFloat(v).val

Returned == ppc = "done" /\ shape = "struct"

\* C2: when parseConfig has returned nil, every tagged field of a supported
\* type whose key has a non-empty valid value holds the conversion of that
\* value, and every one whose key is unset or empty holds its prior value.
C2_PopulateOnSuccess ==
    (Returned /\ perr = NoErr) =>
        \A i \in 1..Len(fields) :
            (fields[i].tagged /\ fields[i].kind \in SupportedKinds) =>
                /\ (Visible(i) # <<>> /\ ValidFor(fields[i].kind, Visible(i))) =>
                       cfg[i] = ValueOf(fields[i].kind, Visible(i))
                /\ Visible(i) = <<>> => cfg[i] = cfg0[i]

\* parseConfig returned nil on an int field set from "-7", a float64 field
\* set from "1.5" and an int field whose key is set to "", all non-zero before
C2_Witness ==
    /\ Returned
    /\ perr = NoErr
    /\ Len(fields) = 3
    /\ fields[1].kind = "int" /\ Visible(1) = <<"-", "7">>
    /\ fields[2].kind = "float64" /\ Visible(2) = <<"1", ".", "5">>
    /\ fields[3].kind = "int" /\ fields[3].tagged /\ FieldKey(3) \in DOMAIN env /\ Visible(3) = <<>>
    /\ cfg0 = <<99, [num |-> 25, scale |-> 1], 99>>
    /\ cfg = <<0 - 7, [num |-> 15, scale |-> 1], 99>>

\* field i has a present value that cannot be converted to its supported type
ConvFails(i) ==
    /\ fields[i].tagged
    /\ fields[i].kind \in SupportedKinds
    /\ Visible(i) # <<>>
    /\ ~ValidFor(fields[i].kind, Visible(i))

FirstConvFail(i) == ConvFails(i) /\ \A j \in 1..(i - 1) : ~ConvFails(j)

ConversionErrors == {"invalid integer value", "invalid boolean value", "invalid float value"}

\* what the claim says of a parseConfig that failed to convert at field i
AbortedAt(i) ==
    /\ perr.kind \in ConversionErrors
    /\ perr.subject = fields[i].key
    /\ \A j \in (i + 1)..Len(fields) : cfg[j] = cfg0[j]
    /\ \A j \in 1..(i - 1) :
          (fields[j].tagged /\ fields[j].kind \in SupportedKinds
              /\ Visible(j) # <<>> /\ ValidFor(fields[j].kind, Visible(j))) =>
          cfg[j] = ValueOf(fields[j].kind, Visible(j))

\* C3 as stated: when field i is the first field whose present value cannot be
\* converted to its type, parseConfig returns a conversion error naming the key
\* of field i, the fields after i hold their prior values and the fields
\* before i with a present valid value hold its conversion.
C3_AbortOnFirstConvError ==
    Returned => \A i \in 1..Len(fields) : FirstConvFail(i) => AbortedAt(i)

\* field j is refused before any conversion: a value is present for it and it
\* cannot be set (unexported) or its type is not supported
Refused(j) ==
    /\ fields[j].tagged
    /\ Visible(j) # <<>>
    /\ (~fields[j].exported \/ fields[j].kind \notin SupportedKinds)

\* C3 as amended: the same, when no field up to i is refused before conversion.
C3_AbortOnFirstError ==
    Returned =>
        \A i \in 1..Len(fields) :
            (FirstConvFail(i) /\ \A j \in 1..i : ~Refused(j)) => AbortedAt(i)

\* an int field set from "1", then an int field whose value is "abc", then a
\* string field for which "abc" is visible and which keeps its prior value
C3_Witness ==
    /\ Returned
    /\ Len(fields) = 3
    /\ fields[1].kind = "int" /\ fields[1].tagged /\ Visible(1) = <<"1">>
    /\ fields[2].kind = "int" /\ Visible(2) = <<"a", "b", "c">>
    /\ fields[3].kind = "string" /\ fields[3].exported /\ Visible(3) = <<"a", "b", "c">>
    /\ perr = Err("invalid integer value", <<"B">>)
    /\ cfg0 = <<99, 99, <<"p">> >>
    /\ cfg = <<1, 99, <<"p">> >>

\* field i is a tagged, settable field of an unsupported type, and no field
\* before it makes parseConfig fail
FirstUnsupported(i) ==
    /\ fields[i].tagged
    /\ fields[i].exported
    /\ fields[i].kind \notin SupportedKinds
    /\ \A j \in 1..(i - 1) : FieldStep(env, fields[j], cfg0[j]).err = NoErr

\* C4 as stated: whenever the struct has a tagged field of an unsupported type
\* (the first one, with no field before it failing), parseConfig returns the
\* unsupported-type error naming that field, a value being visible for its
\* key or not.
C4_UnsupportedTypeFails ==
    Returned =>
        \A i \in 1..Len(fields) :
            FirstUnsupported(i) => perr = Err("unsupported field type", fields[i].name)

\* C4 as amended: with a non-empty value visible for its key, such a field makes
\* parseConfig return the unsupported-type error naming it, and the fields from
\* it on keep their prior values; with no value or the empty value visible it
\* is skipped: it keeps its prior value and no error names it.
C4_UnsupportedTypeWhenPresent ==
    Returned =>
        \A i \in 1..Len(fields) :
            FirstUnsupported(i) =>
                IF Visible(i) # <<>>
                THEN /\ perr = Err("unsupported field type", fields[i].name)
                     /\ \A j \in i..Len(fields) : cfg[j] = cfg0[j]
                ELSE /\ cfg[i] = cfg0[i]
                     /\ perr.subject # fields[i].name
                     /\ fidx > i \/ i = Len(fields)

\* an int field set from "1", then a uint field for which "1" is visible, then
\* a string field for which "abc" is visible and which keeps its prior value
C4_Witness ==
    /\ Returned
    /\ Len(fields) = 3
    /\ fields[1].kind = "int" /\ fields[1].tagged /\ Visible(1) = <<"1">>
    /\ fields[2].kind = "uint" /\ Visible(2) = <<"1">>
    /\ fields[3].kind = "string" /\ fields[3].exported /\ Visible(3) = <<"a", "b", "c">>
    /\ perr = Err("unsupported field type", <<"F", "B">>)
    /\ cfg0 = <<99, 99, <<"p">> >>
    /\ cfg = <<1, 99, <<"p">> >>

----------------------------------------------------------------------------
(* Claims about the boolean conversion, checked under SpecBool *)

\* parseConfig returned an error at field i
FailedAt(i) == ppc = "done" /\ perr # NoErr /\ fidx = i

\* what becomes of the bool field i once processed: set to b, or refused
BoolSet(i, b) == cfg[i] = b /\ ~FailedAt(i)

BoolRefused(i) ==
    /\ FailedAt(i)
    /\ perr = Err("invalid boolean value", fields[i].key)
    /\ cfg[i] = cfg0[i]

BoolField(i) == fields[i].kind = "bool" /\ fields[i].tagged /\ fields[i].exported

\* C8 as stated: a value that is true, false, 1, 0, t or f in any mix of
\* upper and lower case sets the field to that truth value without error,
\* and every other non-empty value is a conversion error.
C8_BoolCaseInsensitive ==
    \A i \in 1..fidx :
        BoolField(i) =>
            /\ Visible(i) \in AnyCaseTrue => BoolSet(i, TRUE)
            /\ Visible(i) \in AnyCaseFalse => BoolSet(i, FALSE)
            /\ (Visible(i) # <<>> /\ Visible(i) \notin AnyCaseTrue \cup AnyCaseFalse) =>
                  BoolRefused(i)

\* C8 as amended: exactly 1, t, T, TRUE, true, True set the field to true and
\* 0, f, F, FALSE, false, False to false; every other non-empty value, the
\* other case mixes included, is a conversion error naming the key.
C8_BoolLiterals ==
    \A i \in 1..fidx :
        BoolField(i) =>
            /\ Visible(i) \in TrueLiterals => BoolSet(i, TRUE)
            /\ Visible(i) \in FalseLiterals => BoolSet(i, FALSE)
            /\ (Visible(i) # <<>> /\ Visible(i) \notin TrueLiterals \cup FalseLiterals) =>
                  BoolRefused(i)

\* "True" has set a field that was false, without error
C8_Witness ==
    /\ Returned
    /\ fidx = 1
    /\ BoolField(1)
    /\ Visible(1) = <<"T", "r", "u", "e">>
    /\ cfg0 = <<FALSE>>
    /\ cfg = <<TRUE>>
    /\ perr = NoErr

----------------------------------------------------------------------------
(* Claims about InitializeConfig, checked under SpecInit *)

\* C5: whatever loadEnvFile returned, InitializeConfig has run parseConfig on
\* the environment loadEnvFile left and returns its result; with no file and
\* no declared key visible, the destination is zero-valued and the result nil.
C5_SeedingNeverFatal ==
    ipc = "done" =>
        /\ ppc = "done"
        /\ ret = ParseFrom(env, fields, cfg0, 1).err
        /\ cfg = ParseFrom(env, fields, cfg0, 1).cfg
        /\ (~exists[1] /\ \A i \in 1..Len(fields) : fields[i].key \notin DOMAIN env0) =>
              (cfg = ZeroConfig /\ ret = NoErr)

\* loadEnvFile failed on the line after the one that set MONGO_PORT, and
\* InitializeConfig returned nil with the port 27017
C5_Witness ==
    /\ ipc = "done"
    /\ lerr[1].kind = "failed to set env var"
    /\ <<"P">> \notin DOMAIN env0
    /\ ret = NoErr
    /\ cfg[2] = 27017

====
